---- MODULE Spec2Model ----
(***************************************************************************)
(* The serial command-line interpreter of the Laureline GPS NTP server     *)
(* (src/cmdline.c): the byte-driven input state machine cli_feed, the      *)
(* command table and its bsearch dispatch, the typed variable table with   *)
(* cliSetVar / cliPrintVar, and the command handlers.                      *)
(*                                                                         *)
(* Text is a sequence of byte values.  cl_buf is the 64-byte array, kept   *)
(* whole (bytes past cl_count included), held as a sequence whose element  *)
(* i+1 is the C element cl_buf[i].  One step of the model is one call of   *)
(* cli_feed, the handler it dispatches included.                           *)
(***************************************************************************)
EXTENDS Integers, Sequences, FiniteSets, TLC

\* ------------------------------------------------------------------ bytes

NUL == 0
EOT == 4
BS == 8
TAB == 9
LF == 10
FF == 12
CR == 13
SPACE == 32
STAR == 42
DOT == 46
DIGIT0 == 48
DIGIT9 == 57
EQUALS == 61
QMARK == 63
TILDE == 126
DEL == 127

\* sizeof(cl_buf), sizeof(fmt_buf)
BufSize == 64
FmtBufSize == 64

Min(a, b) == IF a < b THEN a ELSE b

\* A uint32_t is held as its two 16-bit halves << high, low >>, so that no
\* number of the model passes 2^31: arithmetic on it is arithmetic modulo 2^32
Pow2_8 == 256
Pow2_16 == 65536

U32(n) == << (n \div Pow2_16) % Pow2_16, n % Pow2_16 >>

\* (v * m + a) modulo 2^32, for small m and a
U32MulAdd(v, m, a) ==
    LET low == v[2] * m + a
    IN  << (v[1] * m + low \div Pow2_16) % Pow2_16, low % Pow2_16 >>

\* v divided by ten, and the remainder
U32Div10(v) == << v[1] \div 10, ((v[1] % 10) * Pow2_16 + v[2]) \div 10 >>
U32Mod10(v) == ((v[1] % 10) * Pow2_16 + v[2]) % 10

\* n copies of the byte c
Rep(c, n) == [i \in 1..n |-> c]

\* ---------------------------------------------------------- libc helpers

\* tolower() in the C locale
tolower(c) == IF c >= 65 /\ c <= 90 THEN c + 32 ELSE c

\* The byte at C index i of the NUL-terminated text a (NUL at and past its end)
CharAt(a, i) == IF i < Len(a) THEN a[i + 1] ELSE NUL

\* strncasecmp(a, b, n), from C index i on: the sign of the first difference
\* of the lowered bytes, 0 when n bytes agree or both texts end
RECURSIVE strncasecmpFrom(_, _, _, _)
strncasecmpFrom(a, b, n, i) ==
    IF i >= n THEN 0
    ELSE LET ca == tolower(CharAt(a, i))
             cb == tolower(CharAt(b, i))
         IN  IF ca # cb THEN (IF ca < cb THEN -1 ELSE 1)
             ELSE IF ca = NUL THEN 0
             ELSE strncasecmpFrom(a, b, n, i + 1)

strncasecmp(a, b, n) == strncasecmpFrom(a, b, n, 0)

\* strlen() of the text at C offset off of the array buf: the number of bytes
\* before the first NUL, or up to the end of the array when none is left
RECURSIVE SpanFrom(_, _)
SpanFrom(buf, off) ==
    IF off >= Len(buf) \/ buf[off + 1] = NUL THEN 0
    ELSE 1 + SpanFrom(buf, off + 1)

\* The NUL-terminated text a C reader finds at cl_buf + off.  When no NUL is
\* left inside the array the read runs on into the memory behind it: `past`
\* is what it finds there before the first NUL (chosen by the environment).
CStrAt(buf, off, past) ==
    LET n == SpanFrom(buf, off)
        inside == [i \in 1..n |-> buf[off + i]]
    IN  IF off + n >= Len(buf) THEN inside \o past ELSE inside

\* strstr(text, "="): the C index of the first '=', or -1
RECURSIVE IndexOfFrom(_, _, _)
IndexOfFrom(text, c, i) ==
    IF i >= Len(text) THEN -1
    ELSE IF text[i + 1] = c THEN i
    ELSE IndexOfFrom(text, c, i + 1)

\* The text from C index i to the end
Tail_(text, i) == IF i >= Len(text) THEN << >> ELSE SubSeq(text, i + 1, Len(text))

\* printf("%u") / printf("%d") of a non-negative number: its decimal digits
RECURSIVE Dec(_)
Dec(n) == IF n < 10 THEN << DIGIT0 + n >> ELSE Dec(n \div 10) \o << DIGIT0 + (n % 10) >>

\* printf("%u") of a uint32_t
RECURSIVE DecU32(_)
DecU32(v) ==
    IF v[1] = 0 /\ v[2] < 10 THEN << DIGIT0 + v[2] >>
    ELSE DecU32(U32Div10(v)) \o << DIGIT0 + U32Mod10(v) >>

\* vsnprintf(fmt_buf, sizeof(fmt_buf), ...): at most 63 bytes are kept
Fmt(text) == SubSeq(text, 1, Min(Len(text), FmtBufSize - 1))

\* ----------------------------------------------------------------- tables

\* cmd_table, sorted by name: name, description, handler
cmd_table == <<
    [name |-> <<100,101,102,97,117,108,116,115>>, param |-> "reset to factory defaults and reboot", func |-> "cliDefaults"],
    [name |-> <<101,120,105,116>>, param |-> "leave command mode", func |-> "cliExit"],
    [name |-> <<104,101,108,112>>, param |-> "", func |-> "cliHelp"],
    [name |-> <<105,110,102,111>>, param |-> "show runtime information", func |-> "cliInfo"],
    [name |-> <<115,97,118,101>>, param |-> "save changes and reboot", func |-> "cliSave"],
    [name |-> <<115,101,116>>, param |-> "name=value or blank or * for list", func |-> "cliSet"],
    [name |-> <<117,112,116,105,109,101>>, param |-> "show the system uptime", func |-> "cliUptime"],
    [name |-> <<118,101,114,115,105,111,110>>, param |-> "show version", func |-> "cliVersion"] >>

CMD_COUNT == Len(cmd_table)

\* value_table: name, type, the field of cfg that ptr addresses
value_table == <<
    [name |-> <<103,112,115,95,98,97,117,100,95,114,97,116,101>>, type |-> "VAR_UINT32", ptr |-> "gps_baud_rate"],
    [name |-> <<105,112,95,97,100,100,114>>, type |-> "VAR_IP4", ptr |-> "ip_addr"],
    [name |-> <<105,112,95,103,97,116,101,119,97,121>>, type |-> "VAR_IP4", ptr |-> "ip_gateway"],
    [name |-> <<105,112,95,110,101,116,109,97,115,107>>, type |-> "VAR_IP4", ptr |-> "ip_netmask"] >>

VALUE_COUNT == Len(value_table)

\* The results of eeprom_write_cfg(): the four the code names, and one more
\* for every other failure
EepromResults == {"EERR_OK", "EERR_TIMEOUT", "EERR_NACK", "EERR_FAULT", "EERR_OTHER"}

\* The schema version cliDefaults stores
CFG_VERSION == 1

\* cfg after memset(cfg_bytes, 0, EEPROM_CFG_SIZE): every field zero, the
\* fields no variable names (`other`) included
ZeroCfg == [version |-> 0, gps_baud_rate |-> U32(0), ip_addr |-> <<0, 0, 0, 0>>,
            ip_gateway |-> <<0, 0, 0, 0>>, ip_netmask |-> <<0, 0, 0, 0>>, other |-> 0]

\* ----------------------------------------------------------------- output

\* What one call of cli_feed does besides changing its variables, in order:
\* serial_puts of a literal, serial_puts of formatted bytes, serial_putc,
\* the calls to the collaborators (with the configuration record
\* eeprom_write_cfg was called on and what it returned), and the handler
\* invoked with its argument.
Puts(str) == [op |-> "serial_puts", lit |-> str, bytes |-> << >>]
Printf(text) == [op |-> "serial_puts", lit |-> "", bytes |-> Fmt(text)]
Putc(c) == [op |-> "serial_putc", lit |-> "", bytes |-> << c >>]
Call(name) == [op |-> name, lit |-> "", bytes |-> << >>]
Returned(name, result, image) == [op |-> name, lit |-> result, bytes |-> << >>, image |-> image]
Handler(func, arg) == [op |-> func, lit |-> "", bytes |-> arg]

Emit(s, e) == [s EXCEPT !.trace = Append(@, e)]

uartPrint(s, str) == Emit(s, Puts(str))

uart_printf(s, text) == Emit(s, Printf(text))

MsgPrompt == "\r\n# "
\* ESC stands for the byte 033, BS for the byte 010
MsgClear == "ESC[2JESC[1;1H"
MsgErase == "BS BS"
MsgCrLf == "\r\n"
MsgUnknownCmd == "ERR: Unknown command, try 'help'\r\n"
MsgUnknownVar == "ERR: Unknown variable name\r\n"
MsgExit == "Exiting cmdline mode.\r\nConfiguration changes have not been saved.\r\nPress Enter to enable cmdline.\r\n"
MsgWriting == "Writing EEPROM...\r\n"
MsgTimeout == "ERROR: timeout while writing EEPROM\r\n"
MsgNack == "ERROR: EEPROM is faulty or missing\r\n"
MsgFault == "ERROR: EEPROM is faulty\r\n"
MsgFail == "FAIL: unable to write EEPROM\r\n"
MsgOk == "OK\r\n"
MsgSettings == "Current settings:\r\n"
StrSetTo == <<32,115,101,116,32,116,111,32>>
StrIs == <<32,61,32>>

\* ------------------------------------------------------ command-line helpers

cliPrompt_KeepCount(s) == uartPrint([s EXCEPT !.cl_enabled = 1], MsgPrompt)
cliPrompt(s) == uartPrint([s EXCEPT !.cl_count = 0, !.cl_enabled = 1], MsgPrompt)

\* cliCompare(a, b): a is the key (the held line), b a table entry
cliCompare_KeyLength(a, b) == strncasecmp(a.name, b.name, Len(a.name))
cliCompare(a, b) == strncasecmp(a.name, b.name, Len(b.name))

\* bsearch(&target, cmd_table, CMD_COUNT, ...) on the C indices l..u-1: the
\* index (from 1) of an entry that compares equal, or 0 for NULL
RECURSIVE bsearchIn(_, _, _)
bsearchIn(target, l, u) ==
    IF l >= u THEN 0
    ELSE LET idx == (l + u) \div 2
             cmp == cliCompare(target, cmd_table[idx + 1])
         IN  IF cmp < 0 THEN bsearchIn(target, l, idx)
             ELSE IF cmp > 0 THEN bsearchIn(target, idx + 1, u)
             ELSE idx + 1

bsearch(target) == bsearchIn(target, 0, CMD_COUNT)

\* ------------------------------------------------------- variable registry

IsDigit(c) == c >= DIGIT0 /\ c <= DIGIT9

\* atoi_decimal(str): the unsigned 32-bit number its leading decimal digits
\* spell, 0 when it starts with none
RECURSIVE atoiFrom(_, _, _)
atoiFrom(str, i, acc) ==
    IF i >= Len(str) \/ ~IsDigit(str[i + 1]) THEN acc
    ELSE atoiFrom(str, i + 1, U32MulAdd(acc, 10, str[i + 1] - DIGIT0))

atoi_decimal(str) == atoiFrom(str, 0, U32(0))

\* The VAR_IP4 scan of cliSetVar: val is a uint32_t, val2 a uint8_t
RECURSIVE Ip4Scan(_, _, _, _)
Ip4Scan(str, i, val, val2) ==
    IF i >= Len(str) THEN U32MulAdd(val, Pow2_8, val2)
    ELSE IF str[i + 1] = DOT THEN Ip4Scan(str, i + 1, U32MulAdd(val, Pow2_8, val2), 0)
    ELSE IF IsDigit(str[i + 1])
         THEN Ip4Scan(str, i + 1, val, (val2 * 10 + (str[i + 1] - DIGIT0)) % Pow2_8)
    ELSE Ip4Scan(str, i + 1, val, val2)

cliSetVar_AddsToOld(cfg, var, str) ==
    CASE var.type = "VAR_UINT32" ->
            [cfg EXCEPT ![var.ptr] = U32MulAdd(atoi_decimal(str), 1, cfg[var.ptr][2])]
      [] OTHER -> cfg

\* cliSetVar(var, str): the configuration record afterwards.  The VAR_IP4
\* case computes val and stores nothing: its store is commented out.
cliSetVar(cfg, var, str) ==
    CASE var.type = "VAR_UINT32" -> [cfg EXCEPT ![var.ptr] = atoi_decimal(str)]
      [] var.type = "VAR_BOOL" -> [cfg EXCEPT ![var.ptr] = IF atoi_decimal(str) # U32(0) THEN 1 ELSE 0]
      [] var.type = "VAR_IP4" -> LET val == Ip4Scan(str, 0, U32(0), 0) IN cfg

\* The text cliPrintVar formats for var
VarText(cfg, var) ==
    CASE var.type = "VAR_UINT32" -> DecU32(cfg[var.ptr])
      [] var.type = "VAR_BOOL" -> Dec(IF cfg[var.ptr] # 0 THEN 1 ELSE 0)
      [] var.type = "VAR_IP4" ->
            LET addr == cfg[var.ptr]
            IN  Dec(addr[1]) \o << DOT >> \o Dec(addr[2]) \o << DOT >>
                  \o Dec(addr[3]) \o << DOT >> \o Dec(addr[4])

cliPrintVar(s, var) == uart_printf(s, VarText(s.cfg, var))

\* ------------------------------------------------------------ the handlers

\* cliWriteConfig() when eeprom_write_cfg() returns result.  The write to
\* SCB->AIRCR resets the processor: nothing after it runs.
cliWriteConfig_ResetOnOther(s, result) ==
    LET s1 == Emit(uartPrint(s, MsgWriting), Returned("eeprom_write_cfg", result, s.cfg))
    IN  IF result = "EERR_TIMEOUT" THEN uartPrint(s1, MsgTimeout)
        ELSE IF result = "EERR_NACK" THEN uartPrint(s1, MsgNack)
        ELSE IF result = "EERR_FAULT" THEN uartPrint(s1, MsgFault)
        ELSE LET s2 == Emit(uartPrint(s1, MsgOk), Call("CoTickDelay"))
             IN  [Emit(s2, Call("reset")) EXCEPT !.halted = TRUE]

cliWriteConfig_NoDelay(s, result) ==
    LET s1 == Emit(uartPrint(s, MsgWriting), Returned("eeprom_write_cfg", result, s.cfg))
    IN  IF result = "EERR_TIMEOUT" THEN uartPrint(s1, MsgTimeout)
        ELSE IF result = "EERR_NACK" THEN uartPrint(s1, MsgNack)
        ELSE IF result = "EERR_FAULT" THEN uartPrint(s1, MsgFault)
        ELSE IF result # "EERR_OK" THEN uartPrint(s1, MsgFail)
        ELSE [Emit(uartPrint(s1, MsgOk), Call("reset")) EXCEPT !.halted = TRUE]

cliWriteConfig(s, result) ==
    LET s1 == Emit(uartPrint(s, MsgWriting), Returned("eeprom_write_cfg", result, s.cfg))
    IN  IF result = "EERR_TIMEOUT" THEN uartPrint(s1, MsgTimeout)
        ELSE IF result = "EERR_NACK" THEN uartPrint(s1, MsgNack)
        ELSE IF result = "EERR_FAULT" THEN uartPrint(s1, MsgFault)
        ELSE IF result # "EERR_OK" THEN uartPrint(s1, MsgFail)
        ELSE LET s2 == Emit(uartPrint(s1, MsgOk), Call("CoTickDelay"))
             IN  [Emit(s2, Call("reset")) EXCEPT !.halted = TRUE]

cliDefaults_KeepsRecord(s, result) ==
    cliWriteConfig([s EXCEPT !.cfg.version = CFG_VERSION], result)
cliDefaults(s, result) ==
    cliWriteConfig([s EXCEPT !.cfg = [ZeroCfg EXCEPT !.version = CFG_VERSION]], result)

cliExit_DropsChanges(s) ==
    uartPrint([s EXCEPT !.cl_count = 0, !.cl_enabled = 0, !.cfg = [ZeroCfg EXCEPT !.version = CFG_VERSION]],
              MsgExit)
cliExit_KeepsCount(s) == uartPrint([s EXCEPT !.cl_enabled = 0], MsgExit)
cliExit_StayEnabled(s) == uartPrint([s EXCEPT !.cl_count = 0], MsgExit)
cliExit(s) == uartPrint([s EXCEPT !.cl_count = 0, !.cl_enabled = 0], MsgExit)

\* cliHelp: one formatted line per command (name, tab, description, CR LF;
\* none is longer than fmt_buf)
RECURSIVE cliHelpFrom(_, _)
cliHelpFrom(s, i) ==
    IF i > CMD_COUNT THEN s
    ELSE cliHelpFrom(Emit(s, [op |-> "serial_puts", lit |-> cmd_table[i].param,
                              bytes |-> cmd_table[i].name \o << TAB >>]), i + 1)

cliHelp(s) == cliHelpFrom(uartPrint(s, "Available commands:\r\n"), 1)

cliVersion(s) == uartPrint(s, "Hardware:       BOARD_REV\r\nSoftware:       1.2.3.4\r\n")

cli_print_hwaddr(s) == uartPrint(uartPrint(s, "MAC Address:    "), MsgCrLf)

cliUptime(s) == uartPrint(uartPrint(uartPrint(s, "Uptime:         "), "uptime_format()"), MsgCrLf)

cliInfo(s) ==
    uartPrint(cliUptime(cli_print_hwaddr(cliVersion(s))), "System clock:   %d Hz (nominal)\r\n")

cliSave(s, result) == cliWriteConfig(s, result)

\* The list mode of cliSet, from table entry i on
RECURSIVE cliSetList(_, _)
cliSetList(s, i) ==
    IF i > VALUE_COUNT THEN s
    ELSE cliSetList(uartPrint(cliPrintVar(uart_printf(s, value_table[i].name \o StrIs),
                                          value_table[i]), MsgCrLf), i + 1)

\* while (*eqptr == ' ') eqptr++: the C index of the first byte that is no space
RECURSIVE SkipSpaces(_, _)
SkipSpaces(text, i) ==
    IF i < Len(text) /\ text[i + 1] = SPACE THEN SkipSpaces(text, i + 1) ELSE i

\* The assignment mode of cliSet, from table entry i on: the first entry
\* whose whole name starts cmdline is set and echoed
RECURSIVE cliSetAssign_NoReturn(_, _, _, _)
cliSetAssign_NoReturn(s, cmdline, valstr, i) ==
    IF i > VALUE_COUNT THEN uartPrint(s, MsgUnknownVar)
    ELSE IF strncasecmp(cmdline, value_table[i].name, Len(value_table[i].name)) = 0
         THEN LET s1 == [s EXCEPT !.cfg = cliSetVar(s.cfg, value_table[i], valstr)]
              IN  cliSetAssign_NoReturn(
                      cliPrintVar(uart_printf(s1, value_table[i].name \o StrSetTo), value_table[i]),
                      cmdline, valstr, i + 1)
    ELSE cliSetAssign_NoReturn(s, cmdline, valstr, i + 1)
RECURSIVE cliSetAssign(_, _, _, _)
cliSetAssign(s, cmdline, valstr, i) ==
    IF i > VALUE_COUNT THEN uartPrint(s, MsgUnknownVar)
    ELSE IF strncasecmp(cmdline, value_table[i].name, Len(value_table[i].name)) = 0
         THEN LET s1 == [s EXCEPT !.cfg = cliSetVar(s.cfg, value_table[i], valstr)]
              IN  cliPrintVar(uart_printf(s1, value_table[i].name \o StrSetTo), value_table[i])
    ELSE cliSetAssign(s, cmdline, valstr, i + 1)

cliSet(s, cmdline) ==
    LET len == Len(cmdline)
        eq == IndexOfFrom(cmdline, EQUALS, 0)
    IN  IF len = 0 \/ (len = 1 /\ cmdline[1] = STAR)
        THEN cliSetList(uartPrint(s, MsgSettings), 1)
        ELSE IF eq >= 0
             THEN cliSetAssign(s, cmdline, Tail_(cmdline, SkipSpaces(cmdline, eq + 1)), 1)
        ELSE s

\* cmd->func(cmdline): the handler is recorded, then run
Invoke(s, func, cmdline, result) ==
    LET s1 == Emit(s, Handler(func, cmdline))
    IN  CASE func = "cliDefaults" -> cliDefaults(s1, result)
          [] func = "cliExit" -> cliExit(s1)
          [] func = "cliHelp" -> cliHelp(s1)
          [] func = "cliInfo" -> cliInfo(s1)
          [] func = "cliSave" -> cliSave(s1, result)
          [] func = "cliSet" -> cliSet(s1, cmdline)
          [] func = "cliUptime" -> cliUptime(s1)
          [] func = "cliVersion" -> cliVersion(s1)

\* ---------------------------------------------------------------- cli_feed

\* cl_buf[i] = v, i a C index.  A store at an index past the array lands on
\* the byte behind it: `behind` names what the linker put there, cl_count
\* or a byte no later read depends on (fmt_buf, which every uart_printf
\* rewrites before it is read, or memory of another module).
Store(s, i, v, behind) ==
    IF i < BufSize
    THEN [s EXCEPT !.cl_buf[i + 1] = v, !.wr = @ \cup {i}]
    ELSE IF behind = "cl_count"
         THEN [s EXCEPT !.cl_count = v, !.wr = @ \cup {i}]
    ELSE [s EXCEPT !.wr = @ \cup {i}]

\* memset(cl_buf, 0, sizeof(cl_buf))
Memset(s) == [s EXCEPT !.cl_buf = Rep(NUL, BufSize), !.wr = @ \cup (0 .. (BufSize - 1))]

\* "Enter pressed": the sentinel, the lookup, the handler or the notice, and
\* the memset.  `past` is what a read of the argument finds behind the array
\* when no NUL is left inside it (after the sentinel went to cl_buf[64] that is
\* the sentinel itself).
Enter(s, result, behind, past) ==
    LET n == s.cl_count
        s1 == Store(uartPrint(s, MsgCrLf), n, NUL, behind)
        target == [name |-> CStrAt(s1.cl_buf, 0, << >>), param |-> ""]
        cmd == bsearch(target)
        found == IF n >= BufSize THEN << >> ELSE past
        s2 == IF cmd # 0
              THEN Invoke(s1, cmd_table[cmd].func,
                          CStrAt(s1.cl_buf, Len(cmd_table[cmd].name) + 1, found), result)
              ELSE uartPrint(s1, MsgUnknownCmd)
    IN  IF s2.halted THEN s2 ELSE Memset(s2)

\* The end of the terminator branch: the prompt when enabled, then cl_buf[0] = c
EndLine(s, c, behind) ==
    Store(IF s.cl_enabled # 0 THEN cliPrompt(s) ELSE s, 0, c, behind)

Terminator(s, c, result, behind, past) ==
    IF s.cl_count # 0
    THEN LET s1 == Enter(s, result, behind, past)
         IN  IF s1.halted THEN s1 ELSE EndLine(s1, c, behind)
    ELSE IF c = LF /\ s.cl_buf[1] = CR THEN s
    ELSE EndLine(s, c, behind)

Backspace_NoGuard(s) ==
    uartPrint(Store([s EXCEPT !.cl_count = (@ - 1) % Pow2_8], (s.cl_count - 1) % Pow2_8, NUL, "none"),
              MsgErase)
Backspace(s) ==
    IF s.cl_count # 0
    THEN uartPrint(Store([s EXCEPT !.cl_count = @ - 1], s.cl_count - 1, NUL, "none"), MsgErase)
    ELSE s

Printable_KeepsLeadingSpace(s, c) ==
    Emit(Store([s EXCEPT !.cl_count = @ + 1], s.cl_count, c, "none"), Putc(c))
Printable(s, c) ==
    IF s.cl_count = 0 /\ c = SPACE THEN s
    ELSE Emit(Store([s EXCEPT !.cl_count = @ + 1], s.cl_count, c, "none"), Putc(c))

\* cl_count < sizeof(cl_buf)
HasRoom_OffByOne(s) == s.cl_count <= BufSize
HasRoom(s) == s.cl_count < BufSize

\* cli_feed(c) from the state s; result, behind and past are what the
\* environment answers when the call comes to ask
cli_feed_EofAnywhere(s, c, result, behind, past) ==
    IF s.cl_enabled = 0 /\ c # CR /\ c # LF THEN s
    ELSE LET e == [s EXCEPT !.cl_enabled = 1]
         IN  IF c = TAB \/ c = QMARK THEN e
             ELSE IF c = EOT
                  THEN Invoke(e, "cliExit", CStrAt(e.cl_buf, 0, << >>), result)
             ELSE IF c = FF THEN cliPrompt(uartPrint(e, MsgClear))
             ELSE IF c = LF \/ c = CR THEN Terminator(e, c, result, behind, past)
             ELSE IF c = BS \/ c = DEL THEN Backspace(e)
             ELSE IF HasRoom(e) /\ c >= SPACE /\ c <= TILDE THEN Printable(e, c)
             ELSE e
cli_feed(s, c, result, behind, past) ==
    IF s.cl_enabled = 0 /\ c # CR /\ c # LF THEN s
    ELSE LET e == [s EXCEPT !.cl_enabled = 1]
         IN  IF c = TAB \/ c = QMARK THEN e
             ELSE IF e.cl_count = 0 /\ c = EOT
                  THEN Invoke(e, "cliExit", CStrAt(e.cl_buf, 0, << >>), result)
             ELSE IF c = FF THEN cliPrompt(uartPrint(e, MsgClear))
             ELSE IF c = LF \/ c = CR THEN Terminator(e, c, result, behind, past)
             ELSE IF c = BS \/ c = DEL THEN Backspace(e)
             ELSE IF HasRoom(e) /\ c >= SPACE /\ c <= TILDE THEN Printable(e, c)
             ELSE e

\* ------------------------------------------------------------ environment

L_help == <<104,101,108,112>>  \* "help"
L_HELP == <<72,101,76,80>>  \* "HeLP"
L_h == <<104>>  \* "h"
L_helpme == <<104,101,108,112,109,101>>  \* "helpme"
L_exit == <<101,120,105,116>>  \* "exit"
L_info == <<105,110,102,111>>  \* "info"
L_uptime == <<117,112,116,105,109,101>>  \* "uptime"
L_version == <<118,101,114,115,105,111,110>>  \* "version"
L_save == <<115,97,118,101>>  \* "save"
L_defaults == <<100,101,102,97,117,108,116,115>>  \* "defaults"
L_set == <<115,101,116>>  \* "set"
L_setstar == <<115,101,116,32,42>>  \* "set *"
L_set_ip == <<115,101,116,32,105,112,95,97,100,100,114,61,49,48,46,48,46,48,46,49>>  \* "set ip_addr=10.0.0.1"
L_set_gw == <<115,101,116,32,73,80,95,71,97,116,101,119,97,121,61,51,48,48,46,49,46,50,46,51>>  \* "set IP_Gateway=300.1.2.3"
L_set_baud == <<115,101,116,32,103,112,115,95,98,97,117,100,95,114,97,116,101,61,57,54,48,48>>  \* "set gps_baud_rate=9600"
L_set_baud_abc == <<115,101,116,32,103,112,115,95,98,97,117,100,95,114,97,116,101,61,97,98,99>>  \* "set gps_baud_rate=abc"
L_set_baud_sp == <<115,101,116,32,103,112,115,95,98,97,117,100,95,114,97,116,101,61,32,55>>  \* "set gps_baud_rate= 7"
L_set_baud_big == <<115,101,116,32,103,112,115,95,98,97,117,100,95,114,97,116,101,61,52,50,57,52,57,54,55,51,48,53>>  \* "set gps_baud_rate=4294967305"
L_set_baud_max == <<115,101,116,32,103,112,115,95,98,97,117,100,95,114,97,116,101,61,52,50,57,52,57,54,55,50,57,53>>  \* "set gps_baud_rate=4294967295"
L_set_foo == <<115,101,116,32,102,111,111,61,49>>  \* "set foo=1"
L_set_noeq == <<115,101,116,32,105,112,95,97,100,100,114>>  \* "set ip_addr"
L_stale == <<120,120,120,120,103,112,115,95,98,97,117,100,95,114,97,116,101,61,53>>  \* "xxxxgps_baud_rate=5"

\* A line of BufSize fill bytes: the longest text the buffer accepts
FillByte == 120
L_fill == Rep(FillByte, BufSize)

\* The lines the operator types, by session kind: command names and line
\* editing; filling the buffer; the set command; persistence
EditLines == {L_help, L_HELP, L_h, L_helpme, L_exit, L_info, L_uptime, L_version,
              L_save, L_defaults, L_set, L_setstar}
FillLines == {L_fill, L_set}
SetLines == {L_set, L_setstar, L_set_ip, L_set_gw, L_set_baud, L_set_baud_abc,
             L_set_baud_sp, L_set_baud_big, L_set_baud_max, L_set_foo, L_set_noeq, L_stale,
             L_exit, L_defaults}
SaveLines == {L_save, L_defaults, L_exit, L_help}

Prefixes(ls) == UNION {{SubSeq(l, 1, k) : k \in 1 .. Len(l)} : l \in ls}
Bytes(ls) == UNION {{l[i] : i \in 1 .. Len(l)} : l \in ls}

EditPrefixes == Prefixes(EditLines)
FillPrefixes == Prefixes(FillLines)
SetPrefixes == Prefixes(SetLines)
SavePrefixes == Prefixes(SaveLines)
EditBytes == Bytes(EditLines) \cup {SPACE, QMARK}
FillBytes == Bytes(FillLines) \cup {SPACE, QMARK}
SetBytes == Bytes(SetLines) \cup {SPACE, QMARK}
SaveBytes == Bytes(SaveLines) \cup {SPACE, QMARK}

\* The held texts at which the operator clears the screen
EditClears == {<< >>, <<104, 101>>, L_setstar}
FillClears == {<< >>, L_fill}
SetClears == {<< >>, L_stale}
SaveClears == {<< >>, <<115, 97>>}

\* The held texts the operator enters: any in an editing or persistence
\* session, whole lines in the others
EditSubmits == EditPrefixes
FillSubmits == {L_fill, L_set, SubSeq(L_fill, 1, BufSize - 1)}
SetSubmits == SetLines
SaveSubmits == SavePrefixes

PrefixesOf(m) ==
    CASE m = "edit" -> EditPrefixes [] m = "fill" -> FillPrefixes
      [] m = "set" -> SetPrefixes [] OTHER -> SavePrefixes
BytesOf(m) ==
    CASE m = "edit" -> EditBytes [] m = "fill" -> FillBytes
      [] m = "set" -> SetBytes [] OTHER -> SaveBytes
ClearsOf(m) ==
    CASE m = "edit" -> EditClears [] m = "fill" -> FillClears
      [] m = "set" -> SetClears [] OTHER -> SaveClears
SubmitsOf(m) ==
    CASE m = "edit" -> EditSubmits [] m = "fill" -> FillSubmits
      [] m = "set" -> SetSubmits [] OTHER -> SaveSubmits

\* The bytes that are neither printable nor a terminator the operator sends:
\* the ones cli_feed knows and one it does not
HIGH == 200
Controls == {TAB, EOT, FF, BS, DEL, HIGH}

\* What is behind cl_buf in memory, and what a read running past it finds
Behinds == {"cl_count", "other"}
Pasts == {<< >>, << EQUALS >>}

\* The configuration records the device may have loaded before the console
\* starts: the defaults, and a populated one
LoadedCfg == [version |-> CFG_VERSION, gps_baud_rate |-> U32(57600), ip_addr |-> <<192, 168, 1, 2>>,
              ip_gateway |-> <<192, 168, 1, 1>>, ip_netmask |-> <<255, 255, 255, 0>>, other |-> 1]
DefaultCfg == [ZeroCfg EXCEPT !.version = CFG_VERSION]
InitCfgs(m) == IF m \in {"edit", "save", "script"} THEN {DefaultCfg, LoadedCfg} ELSE {LoadedCfg}

\* ------------------------------------------------------------------ state

VARIABLES
    cl_enabled,   \* uint8_t cl_enabled
    cl_count,     \* uint8_t cl_count
    cl_buf,       \* char cl_buf[64]
    cfg,          \* the configuration record the value table points into
    halted,       \* the processor was reset by cliWriteConfig
    fed,          \* the byte the last call of cli_feed was given
    trace,        \* what the last call of cli_feed emitted and called, in order
    wr,           \* the C indices of cl_buf the last call of cli_feed stored to
    mode,         \* the kind of session: which lines the operator types
    script,       \* a scripted session: the bytes the operator sends
    pos,          \* a scripted session: how many of them were fed
    log           \* a scripted session: what each line dispatched

vars == << cl_enabled, cl_count, cl_buf, cfg, halted, fed, trace, wr, mode, script, pos, log >>

\* The program's variables as the record the operators above work on; trace
\* and wr start empty at every call
State == [cl_enabled |-> cl_enabled, cl_count |-> cl_count, cl_buf |-> cl_buf,
          cfg |-> cfg, halted |-> halted, trace |-> << >>, wr |-> {}]

Held == SubSeq(cl_buf, 1, Min(cl_count, BufSize))

\* After the C runtime zeroed .bss and the configuration was loaded
InitProgram ==
    /\ cl_enabled = 0
    /\ cl_count = 0
    /\ cl_buf = Rep(NUL, BufSize)
    /\ cfg \in InitCfgs(mode)
    /\ halted = FALSE
    /\ fed = -1                  \* no byte was fed yet
    /\ trace = << >>
    /\ wr = {}

\* A scripted session: after the bytes of pre, the line is fed, then the
\* terminator t1, then the line again, then the terminator t2
ScriptBytes(sc) == sc.pre \o sc.line \o << sc.t1 >> \o sc.line \o << sc.t2 >>
FirstEnd(sc) == Len(sc.pre) + Len(sc.line) + 1
SecondEnd(sc) == Len(ScriptBytes(sc))

NoScript == [pre |-> << >>, line |-> << >>, t1 |-> NUL, t2 |-> NUL]

InitFree(m) ==
    /\ mode = m
    /\ InitProgram
    /\ script = NoScript
    /\ pos = 0
    /\ log = << >>

\* The call cli_feed(c) as a step
Step(c, result, behind, past) ==
    LET s == cli_feed(State, c, result, behind, past)
    IN  /\ ~halted
        /\ cl_enabled' = s.cl_enabled
        /\ cl_count' = s.cl_count
        /\ cl_buf' = s.cl_buf
        /\ cfg' = s.cfg
        /\ halted' = s.halted
        /\ fed' = c
        /\ trace' = s.trace
        /\ wr' = s.wr

\* The operator types along one of the session's lines: a printable byte
\* continues the held text as some line does, unless it will be dropped
\* anyway; the screen is cleared at some held texts only
Typeable(c) ==
    \/ cl_count >= BufSize /\ c = FillByte
    \/ c = QMARK
    \/ c = SPACE /\ cl_count = 0
    \/ Append(Held, c) \in PrefixesOf(mode)

Sendable(c) ==
    IF c = FF THEN Held \in ClearsOf(mode)
    ELSE c \in Controls \/ Typeable(c)

\* A byte that is no terminator is fed
FeedByte ==
    /\ script = NoScript
    /\ \E c \in BytesOf(mode) \cup Controls :
          /\ Sendable(c)
          /\ Step(c, "EERR_OK", "other", << >>)
    /\ UNCHANGED << mode, script, pos, log >>

\* The answers a call may come to ask for, from the state it starts in: a
\* line shorter than "save" reaches no eeprom_write_cfg, a sentinel goes past
\* the array only when it is full, and a read runs past it only when its last
\* byte is no NUL
ResultsNow == IF cl_count < Len(L_save) THEN {"EERR_OK"} ELSE EepromResults
BehindsNow == IF cl_count < BufSize THEN {"other"} ELSE Behinds
PastsNow == IF cl_buf[BufSize] = NUL THEN {<< >>} ELSE Pasts

\* A terminator is fed
FeedLine ==
    /\ script = NoScript
    /\ cl_count = 0 \/ Held \in SubmitsOf(mode)
    /\ \E c \in {CR, LF}, result \in ResultsNow, behind \in BehindsNow, past \in PastsNow :
          Step(c, result, behind, past)
    /\ UNCHANGED << mode, script, pos, log >>

Next == FeedByte \/ FeedLine

InitEdit == InitFree("edit")
InitFill == InitFree("fill")
InitSet == InitFree("set")
InitSave == InitFree("save")

Spec == InitEdit /\ [][Next]_vars
SpecFill == InitFill /\ [][Next]_vars
SpecSet == InitSet /\ [][Next]_vars
SpecSave == InitSave /\ [][Next]_vars

\* ------------------------------------------------------ a line fed twice

L_sp_help == <<32,104,101,108,112>>  \* " help"
L_exit_now == <<101,120,105,116,32,110,111,119>>  \* "exit now"
L_he_lp == <<104,101,63,108,112>>  \* "he?lp"
L_set_name == <<115,101,116,32,103,112,115,95,98,97,117,100,95,114,97,116,101>>  \* "set gps_baud_rate"

TwiceLines == {<< >>, L_help, L_sp_help, L_he_lp, L_h, L_exit, L_exit_now, L_set, L_setstar,
               L_set_baud, L_set_name, L_save, L_defaults, L_version}

\* What brings the session to enabled with an empty buffer: a terminator, or
\* a terminator, a text and a form-feed
Preludes == {<< CR >>, << LF >>, << CR >> \o L_stale \o << FF >>}

TwiceScripts ==
    {[pre |-> p, line |-> l, t1 |-> a, t2 |-> b] :
        p \in Preludes, l \in TwiceLines, a \in {CR, LF}, b \in {CR, LF}}

InitTwice ==
    /\ mode = "script"
    /\ InitProgram
    /\ script \in TwiceScripts
    /\ pos = 0
    /\ log = << >>

HandlerNames == {cmd_table[i].func : i \in 1 .. CMD_COUNT}

\* The handler invocations among the entries of a trace
Dispatched(tr) == SelectSeq(tr, LAMBDA e : e.op \in HandlerNames)

\* The next byte of the script is fed; what the terminator of each of the two
\* lines dispatched is logged, with the length of the text it found
FeedScript ==
    /\ script # NoScript
    /\ pos < SecondEnd(script)
    /\ \E result \in ResultsNow, behind \in BehindsNow, past \in PastsNow :
          Step(ScriptBytes(script)[pos + 1], result, behind, past)
    /\ pos' = pos + 1
    /\ log' = IF pos' \in {FirstEnd(script), SecondEnd(script)}
              THEN Append(log, [held |-> cl_count, calls |-> Dispatched(trace')])
              ELSE log
    /\ UNCHANGED << mode, script >>

NextTwice == FeedScript

SpecTwice == InitTwice /\ [][NextTwice]_vars

\* ------------------------------------------------------------------ claims

ScriptDone == script # NoScript /\ pos = SecondEnd(script) /\ Len(log) = 2

\* The name of the command whose handler is func
CmdName(func) == cmd_table[CHOOSE i \in 1 .. CMD_COUNT : cmd_table[i].func = func].name

Printables == SPACE .. TILDE
Terminators == {CR, LF}

\* Whether the trace holds the entry e
Has(tr, e) == \E i \in 1 .. Len(tr) : tr[i] = e

\* How many entries of the trace are calls of op
Count(tr, o) == Cardinality({i \in 1 .. Len(tr) : tr[i].op = o})

\* C2: the line length never passes the capacity of the buffer, and a
\* printable byte fed while the buffer is full changes neither the length nor
\* the buffer and is not echoed.
C2_LengthBounded ==
    /\ [](cl_count <= BufSize)
    /\ [][(cl_count = BufSize /\ fed' \in Printables)
            => (cl_count' = cl_count /\ cl_buf' = cl_buf /\ trace' = << >>)]_vars

\* C2 witness: a fill byte was fed to the full buffer and dropped
C2_Witness == cl_count = BufSize /\ fed = FillByte /\ trace = << >> /\ Held = L_fill

\* C3 as the specification states it: every store cli_feed makes into the
\* line buffer is at an index below its capacity, the sentinel of a
\* terminated line included.
C3_StoresInside == \A i \in wr : i < BufSize

\* The name of the table entry i starts the text, case ignored: a scan of the
\* two texts, byte by byte
StartsWith(text, name) ==
    /\ Len(name) <= Len(text)
    /\ \A k \in 1 .. Len(name) : tolower(text[k]) = tolower(name[k])

Matching(text) == {i \in 1 .. CMD_COUNT : StartsWith(text, cmd_table[i].name)}

\* C4: a terminator fed on a non-empty buffer invokes the handler of a
\* command exactly when the command's whole name starts the held text, case
\* ignored, as a linear scan of the table finds; when no name does, the
\* unknown-command notice is emitted, no handler runs and the configuration
\* stays as it was.
C4_DispatchByPrefix ==
    [][(fed' \in Terminators /\ cl_count > 0) =>
         /\ \A i \in 1 .. CMD_COUNT :
               (Count(trace', cmd_table[i].func) = 1) <=> (i \in Matching(Held))
         /\ \A i \in 1 .. CMD_COUNT : Count(trace', cmd_table[i].func) <= 1
         /\ Matching(Held) = {} =>
               /\ Has(trace', Puts(MsgUnknownCmd))
               /\ Dispatched(trace') = << >>
               /\ cfg' = cfg
         /\ Matching(Held) # {} => ~Has(trace', Puts(MsgUnknownCmd))]_vars

\* C4 witness: the line "HeLP" was entered and dispatched help
C4_Witness ==
    /\ fed \in Terminators
    /\ Len(Dispatched(trace)) = 1
    /\ Dispatched(trace)[1].op = "cliHelp"
    /\ cl_count = 0
    /\ cl_enabled = 1

\* C5: the step that runs exit (dispatched, or by EOF on an empty buffer)
\* leaves the session disabled with length 0 and emits no prompt; while the
\* session is disabled a byte that is neither CR nor LF changes nothing,
\* emits nothing and invokes no handler.
C5_ExitDisables ==
    [][/\ (fed' = EOT /\ cl_enabled = 1 /\ cl_count = 0) => Count(trace', "cliExit") = 1
       /\ Count(trace', "cliExit") > 0 =>
             (cl_enabled' = 0 /\ cl_count' = 0 /\ ~Has(trace', Puts(MsgPrompt)))
       /\ (cl_enabled = 0 /\ fed' \notin Terminators) =>
             /\ UNCHANGED << cl_enabled, cl_count, cl_buf, cfg >>
             /\ trace' = << >>]_vars

\* C5 witness: after exit ran in a session that had been enabled, a printable
\* byte was fed and discarded
C5_Witness ==
    /\ cl_enabled = 0
    /\ fed \in Printables
    /\ trace = << >>
    /\ cl_buf[1] \in Terminators

\* The index of the call of eeprom_write_cfg in the trace, 0 when there is none
EepromAt(tr) ==
    IF \E i \in 1 .. Len(tr) : tr[i].op = "eeprom_write_cfg"
    THEN CHOOSE i \in 1 .. Len(tr) : tr[i].op = "eeprom_write_cfg"
    ELSE 0

\* The message each failure of the persistence call is reported with
FailureMsg(result) ==
    CASE result = "EERR_TIMEOUT" -> MsgTimeout
      [] result = "EERR_NACK" -> MsgNack
      [] result = "EERR_FAULT" -> MsgFault
      [] OTHER -> MsgFail

\* C6: when the persistence call of save or defaults returns a failure, the
\* message of that failure is emitted right after it, neither the delay nor
\* the reset is invoked, and the session is enabled with the prompt shown last.
C6_FailureKeepsRunning ==
    LET k == EepromAt(trace)
    IN  (k > 0 /\ trace[k].lit # "EERR_OK") =>
            /\ Len(trace) > k
            /\ trace[k + 1] = Puts(FailureMsg(trace[k].lit))
            /\ Count(trace, "CoTickDelay") = 0
            /\ Count(trace, "reset") = 0
            /\ ~halted
            /\ cl_enabled = 1
            /\ cl_count = 0
            /\ trace[Len(trace)] = Puts(MsgPrompt)
            /\ \A r \in EepromResults \ {"EERR_OK", trace[k].lit} :
                  FailureMsg(r) # FailureMsg(trace[k].lit) => ~Has(trace, Puts(FailureMsg(r)))
            /\ ~Has(trace, Puts(MsgOk))

\* C6 witness: save was entered and the persistence call timed out
C6_Witness ==
    /\ Count(trace, "cliSave") = 1
    /\ EepromAt(trace) > 0
    /\ trace[EepromAt(trace)].lit = "EERR_TIMEOUT"
    /\ Has(trace, Puts(MsgTimeout))

\* C7: when the persistence call returns OK the call ends with, in this order
\* and each once: the writing notice, the persistence call, the OK message,
\* the delay, the reset; and the reset is invoked only after a persistence
\* call of the same command returned OK.
C7_OkThenReset ==
    LET k == EepromAt(trace)
    IN  /\ (k > 0 /\ trace[k].lit = "EERR_OK") =>
            /\ k > 1
            /\ Len(trace) = k + 3
            /\ trace[k - 1] = Puts(MsgWriting)
            /\ trace[k + 1] = Puts(MsgOk)
            /\ trace[k + 2] = Call("CoTickDelay")
            /\ trace[k + 3] = Call("reset")
            /\ Count(trace, "eeprom_write_cfg") = 1
            /\ Count(trace, "CoTickDelay") = 1
            /\ Count(trace, "reset") = 1
            /\ Cardinality({i \in 1 .. Len(trace) : trace[i] = Puts(MsgWriting)}) = 1
            /\ Cardinality({i \in 1 .. Len(trace) : trace[i] = Puts(MsgOk)}) = 1
            /\ halted
        /\ (Count(trace, "reset") > 0 \/ halted) => (k > 0 /\ trace[k].lit = "EERR_OK")

\* C7 witness: save was entered, the persistence call returned OK, the device
\* was reset
C7_Witness ==
    /\ Count(trace, "cliSave") = 1
    /\ halted
    /\ trace[Len(trace)] = Call("reset")

\* The argument of the last dispatched set command, << >> when the last call
\* dispatched none
SetArg ==
    LET d == Dispatched(trace)
    IN  IF Len(d) = 1 /\ d[1].op = "cliSet" THEN d[1].bytes ELSE << >>

A_ip_addr == <<105,112,95,97,100,100,114,61,49,48,46,48,46,48,46,49>>  \* "ip_addr=10.0.0.1"
T_ip_addr == <<49,48,46,48,46,48,46,49>>  \* "10.0.0.1"

\* C8 as the specification states it: set ip_addr=10.0.0.1 stores the
\* address, so that the echo of the command and a later list print
\* ip_addr = 10.0.0.1.
C8_Ip4Stored ==
    SetArg = A_ip_addr =>
        /\ cfg.ip_addr = <<10, 0, 0, 1>>
        /\ VarText(cfg, value_table[2]) = T_ip_addr
        /\ Has(trace, Printf(T_ip_addr))

\* The text of a set argument after its '=' and the spaces that follow it
ValueOf(arg) == Tail_(arg, SkipSpaces(arg, IndexOfFrom(arg, EQUALS, 0) + 1))

A_baud == <<103,112,115,95,98,97,117,100,95,114,97,116,101,61>>  \* "gps_baud_rate="

IsBaudArg(arg) == Len(arg) >= Len(A_baud) /\ SubSeq(arg, 1, Len(A_baud)) = A_baud

\* A decimal numeral without a leading zero
IsNumeral(v) ==
    /\ v # << >>
    /\ \A i \in 1 .. Len(v) : IsDigit(v[i])
    /\ (Len(v) > 1 => v[1] # DIGIT0)

MaxU32Text == <<52,50,57,52,57,54,55,50,57,53>>  \* "4294967295"

\* The numeral a is at most the numeral b of the same length
RECURSIVE NumeralLeq(_, _, _)
NumeralLeq(a, b, i) ==
    IF i > Len(a) THEN TRUE
    ELSE IF a[i] # b[i] THEN a[i] < b[i]
    ELSE NumeralLeq(a, b, i + 1)

\* The numeral spells a number below 2^32
FitsU32(v) == Len(v) < Len(MaxU32Text) \/ (Len(v) = Len(MaxU32Text) /\ NumeralLeq(v, MaxU32Text, 1))

BaudText == VarText(cfg, value_table[1])

\* C9 as the specification states it: set gps_baud_rate=<n> with a decimal
\* number n makes the variable read n, and with a value that starts with no
\* digit makes it read 0.
C9_BaudAnyNumber ==
    IsBaudArg(SetArg) =>
        LET v == ValueOf(SetArg)
        IN  /\ IsNumeral(v) => BaudText = v
            /\ (v # << >> /\ ~IsDigit(v[1])) => BaudText = << DIGIT0 >>

\* C9, amended: set gps_baud_rate=<n> with a decimal number n below 2^32
\* makes the variable read n, whatever it held; with a value (the text after
\* '=' and the spaces following it) that starts with no digit it makes the
\* variable read 0; the echo of the command shows the same text.
C9_BaudInRange ==
    IsBaudArg(SetArg) =>
        LET v == ValueOf(SetArg)
        IN  /\ (IsNumeral(v) /\ FitsU32(v)) => BaudText = v
            /\ (v # << >> /\ ~IsDigit(v[1])) => BaudText = << DIGIT0 >>
            /\ trace[Len(trace) - 1] = Printf(BaudText)

\* C9 witness: set gps_baud_rate=9600 was dispatched and the variable reads 9600
C9_Witness ==
    /\ IsBaudArg(SetArg)
    /\ ValueOf(SetArg) = <<57, 54, 48, 48>>
    /\ cfg.gps_baud_rate = U32(9600)

\* C10: a backspace or DEL fed on a non-empty buffer takes the last held
\* byte away (the length goes down by one, the bytes before it stay) and emits
\* one erase sequence; fed on an empty buffer it changes neither the length
\* nor the buffer and emits nothing; the length is never negative.
C10_Backspace ==
    /\ [](cl_count >= 0 /\ cl_count <= BufSize)
    /\ [][fed' \in {BS, DEL} =>
            IF cl_count > 0
            THEN /\ cl_count' = cl_count - 1
                 /\ \A i \in 1 .. cl_count - 1 : cl_buf'[i] = cl_buf[i]
                 /\ trace' = << Puts(MsgErase) >>
            ELSE /\ cl_count' = cl_count
                 /\ cl_buf' = cl_buf
                 /\ trace' = << >>]_vars

\* C10 witness: a DEL took the last byte of a held text of several bytes
C10_Witness ==
    /\ fed = DEL
    /\ trace = << Puts(MsgErase) >>
    /\ cl_count > 1
    /\ cl_buf[cl_count + 1] = NUL

\* C11 as the specification states it: in an enabled session a space fed on
\* an empty buffer is dropped and not echoed, a non-empty buffer never begins
\* with a space, and every other printable byte fed while the buffer has room
\* is appended at the end, raises the length by one and is echoed once.
C11_EveryPrintableAppended ==
    /\ [](cl_count > 0 => cl_buf[1] # SPACE)
    /\ [][(cl_enabled = 1 /\ fed' \in Printables) =>
            IF cl_count = 0 /\ fed' = SPACE
            THEN cl_count' = 0 /\ cl_buf' = cl_buf /\ trace' = << >>
            ELSE IF cl_count < BufSize
                 THEN /\ cl_count' = cl_count + 1
                      /\ cl_buf' = [cl_buf EXCEPT ![cl_count + 1] = fed']
                      /\ trace' = << Putc(fed') >>
            ELSE TRUE]_vars

\* C11, amended: as stated, for every printable byte but '?', which is
\* reserved for completion: fed in an enabled session it changes neither the
\* length nor the buffer and is not echoed.
C11_PrintableButQmark ==
    /\ [](cl_count > 0 => cl_buf[1] # SPACE)
    /\ [][(cl_enabled = 1 /\ fed' \in Printables) =>
            IF fed' = QMARK \/ (cl_count = 0 /\ fed' = SPACE)
            THEN cl_count' = cl_count /\ cl_buf' = cl_buf /\ trace' = << >>
            ELSE IF cl_count < BufSize
                 THEN /\ cl_count' = cl_count + 1
                      /\ cl_buf' = [cl_buf EXCEPT ![cl_count + 1] = fed']
                      /\ trace' = << Putc(fed') >>
            ELSE TRUE]_vars

\* C11 witness: a space was appended to a held text and echoed
C11_Witness ==
    /\ fed = SPACE
    /\ cl_count > 1
    /\ cl_buf[cl_count] = SPACE
    /\ trace = << Putc(SPACE) >>

\* C12 as the specification states it: a form-feed fed in an enabled session
\* emits the clear-screen sequence and the prompt and leaves the length 0, and
\* it resets the buffer: the argument tail of every later dispatch is what the
\* text held at the terminator has after the command's name and one
\* separator, with no byte typed before the form-feed in it.
C12_ClearForgets ==
    /\ [][(fed' = FF /\ cl_enabled = 1) =>
            (cl_count' = 0 /\ trace' = << Puts(MsgClear), Puts(MsgPrompt) >>)]_vars
    /\ [][(fed' \in Terminators /\ cl_count > 0 /\ cl_count < BufSize) =>
            \A i \in 1 .. Len(Dispatched(trace')) :
                Dispatched(trace')[i].bytes
                    = Tail_(Held, Len(CmdName(Dispatched(trace')[i].op)) + 1)]_vars

\* The notices cli_feed and its handlers report an input error with
ErrorNotices == {Puts(MsgUnknownCmd), Puts(MsgUnknownVar)}

\* How many entries of the trace are error notices
NoticeCount(tr) == Cardinality({i \in 1 .. Len(tr) : tr[i] \in ErrorNotices})

\* A set argument that is neither empty nor `*` and has no '='
Malformed(arg) ==
    /\ arg # << >>
    /\ arg # << STAR >>
    /\ IndexOfFrom(arg, EQUALS, 0) < 0

\* The call that ended the line was given an input error: no command
\* matched, or set was dispatched with a key no variable matches, or with a
\* malformed argument
InputError(held, tr) ==
    LET d == Dispatched(tr)
    IN  \/ Matching(held) = {}
        \/ /\ Len(d) = 1
           /\ d[1].op = "cliSet"
           /\ \/ Malformed(d[1].bytes)
              \/ /\ IndexOfFrom(d[1].bytes, EQUALS, 0) >= 0
                 /\ \A i \in 1 .. VALUE_COUNT : ~StartsWith(d[1].bytes, value_table[i].name)

\* C13 as the specification states it: a line that matches no command, a set
\* whose key matches no variable and a set with a malformed argument each
\* emit one notice, change no configuration value and leave the session
\* enabled with the prompt shown.
C13_ErrorsReported ==
    [][(fed' \in Terminators /\ cl_count > 0 /\ InputError(Held, trace')) =>
          /\ NoticeCount(trace') = 1
          /\ cfg' = cfg
          /\ cl_enabled' = 1
          /\ cl_count' = 0
          /\ trace'[Len(trace')] = Puts(MsgPrompt)]_vars

\* C14 as the specification states it: a newline fed right after a carriage
\* return is swallowed, it dispatches nothing, emits nothing and changes
\* neither the buffer nor the length; a newline fed on an empty buffer after
\* any other byte is a terminator of its own and shows the prompt.
C14_NewlineAfterReturn ==
    [][(fed' = LF /\ fed # -1) =>
          IF fed = CR
          THEN trace' = << >> /\ cl_buf' = cl_buf /\ cl_count' = cl_count
          ELSE cl_count = 0 => trace' = << Puts(MsgPrompt) >>]_vars

\* The text each variable reads as when its bytes are zero
ZeroText(var) == IF var.type = "VAR_IP4" THEN <<48,46,48,46,48,46,48>> ELSE << DIGIT0 >>

\* C15: the call that dispatches defaults runs the persistence sequence on a
\* configuration record that is zero in every byte but the schema version,
\* which is the current version; the record in memory is that one afterwards,
\* whatever the persistence call returned, so all four variables read as zero;
\* when the persistence call fails the device is not reset.
C15_DefaultsZeroThenPersist ==
    Count(trace, "cliDefaults") = 1 =>
        LET k == EepromAt(trace)
        IN  /\ k > 2
            /\ trace[k - 2].op = "cliDefaults"
            /\ trace[k - 1] = Puts(MsgWriting)
            /\ trace[k].image = [ZeroCfg EXCEPT !.version = CFG_VERSION]
            /\ cfg = [ZeroCfg EXCEPT !.version = CFG_VERSION]
            /\ \A i \in 1 .. VALUE_COUNT : VarText(cfg, value_table[i]) = ZeroText(value_table[i])
            /\ trace[k].lit # "EERR_OK" => (~halted /\ Count(trace, "reset") = 0)
            /\ trace[k].lit = "EERR_OK" => (halted /\ trace[Len(trace)] = Call("reset"))

\* C15 witness: defaults was entered on a populated record and the
\* persistence call failed
C15_Witness ==
    /\ Count(trace, "cliDefaults") = 1
    /\ EepromAt(trace) > 0
    /\ trace[EepromAt(trace)].lit = "EERR_NACK"
    /\ cfg.ip_netmask = <<0, 0, 0, 0>>
    /\ ~halted

\* The index of the handler invocation in the trace, 0 when there is none
HandlerAt(tr) ==
    IF \E i \in 1 .. Len(tr) : tr[i].op \in HandlerNames
    THEN CHOOSE i \in 1 .. Len(tr) : tr[i].op \in HandlerNames
    ELSE 0

\* The fields of the configuration record the entries of the table other
\* than entry i point at, and the fields no entry points at
OthersOf(i) == {value_table[j].ptr : j \in (1 .. VALUE_COUNT) \ {i}} \cup {"version", "other"}

\* The table entries whose whole name starts the argument, case ignored
Hits(arg) == {i \in 1 .. VALUE_COUNT : StartsWith(arg, value_table[i].name)}

\* What the list mode of set emits: the heading and, entry by entry in table
\* order, `name = `, the value and a line break
ListOutput(c) ==
    << Puts(MsgSettings) >> \o
    [n \in 1 .. 3 * VALUE_COUNT |->
        LET i == ((n - 1) \div 3) + 1
        IN  CASE n % 3 = 1 -> Printf(value_table[i].name \o StrIs)
              [] n % 3 = 2 -> Printf(VarText(c, value_table[i]))
              [] OTHER -> Puts(MsgCrLf)]

\* C16: a dispatch of set with `key=value` changes at most the variable of the
\* first table entry whose whole name starts the key, case ignored, echoes
\* `name set to ` and the value the variable reads as afterwards, and emits no
\* notice; when no entry matches it emits the unknown-variable notice and
\* changes nothing; with an empty or `*` argument it emits the four variables
\* in table order as `name = value` and changes nothing.
C16_SetOneVariable ==
    [][LET h == HandlerAt(trace')
       IN  (h > 0 /\ trace'[h].op = "cliSet") =>
             LET arg == trace'[h].bytes
                 out == SubSeq(trace', h + 1, Len(trace') - 1)
             IN  /\ trace'[Len(trace')] = Puts(MsgPrompt)
                 /\ IF arg = << >> \/ arg = << STAR >>
                    THEN cfg' = cfg /\ out = ListOutput(cfg)
                    ELSE IF IndexOfFrom(arg, EQUALS, 0) < 0 THEN cfg' = cfg
                    ELSE IF Hits(arg) = {}
                         THEN cfg' = cfg /\ out = << Puts(MsgUnknownVar) >>
                    ELSE LET i == CHOOSE k \in Hits(arg) : \A j \in Hits(arg) : k <= j
                         IN  /\ \A f \in OthersOf(i) : cfg'[f] = cfg[f]
                             /\ out = << Printf(value_table[i].name \o StrSetTo),
                                         Printf(VarText(cfg', value_table[i])) >>]_vars

\* C16 witness: `set IP_Gateway=...` was dispatched and echoed under the
\* table's name of the variable
C16_Witness ==
    /\ HandlerAt(trace) > 0
    /\ trace[HandlerAt(trace)].op = "cliSet"
    /\ Hits(trace[HandlerAt(trace)].bytes) = {3}
    /\ Has(trace, Printf(value_table[3].name \o StrSetTo))

\* C17: a call that runs exit (dispatched, or by EOF on an empty buffer), a
\* call made while the session is disabled and the terminator that enables it
\* again leave the configuration record as it was; the record changes only in
\* a call that dispatches set or defaults.
C17_ExitKeepsConfig ==
    [][/\ (Count(trace', "cliExit") > 0 \/ cl_enabled = 0) => cfg' = cfg
       /\ cfg' # cfg => (Count(trace', "cliSet") = 1 \/ Count(trace', "cliDefaults") = 1)]_vars

\* C17 witness: exit ran after set gps_baud_rate=9600 had changed the
\* variable, and the variable still reads 9600 in the disabled session
C17_Witness ==
    /\ cl_enabled = 0
    /\ Has(trace, Puts(MsgExit))
    /\ cfg.gps_baud_rate = U32(9600)
    /\ BaudText = <<57, 54, 48, 48>>

\* The bytes cli_feed has no effect for in an enabled session: Tab, `?`, and
\* every byte that is neither EOF, a terminator, form-feed, backspace or DEL
\* nor printable
Ignored == (((0 .. 255) \ Printables) \ (Terminators \cup {EOT, FF, BS, DEL})) \cup {QMARK}

\* The serial output among the entries of a trace
Output(tr) == SelectSeq(tr, LAMBDA e : e.op \in {"serial_puts", "serial_putc"})

\* C18: in an enabled session an EOF fed on an empty buffer does what the
\* exit handler does (the session is disabled, the length 0, the exit notice
\* is the whole output, no prompt) and nothing else; Tab, `?`, EOF on a
\* non-empty buffer and every other ignored byte leave the buffer, the length,
\* the enabled flag and the configuration as they were and emit nothing.
C18_EofIsExit ==
    [][cl_enabled = 1 =>
          /\ (fed' = EOT /\ cl_count = 0) =>
                /\ cl_enabled' = cliExit(State).cl_enabled
                /\ cl_count' = cliExit(State).cl_count
                /\ Output(trace') = cliExit(State).trace
                /\ cl_enabled' = 0
                /\ cl_count' = 0
                /\ Output(trace') = << Puts(MsgExit) >>
                /\ Dispatched(trace') = << trace'[1] >>
                /\ trace'[1].op = "cliExit"
                /\ UNCHANGED << cl_buf, cfg, halted >>
          /\ (fed' \in Ignored \/ (fed' = EOT /\ cl_count > 0)) =>
                /\ UNCHANGED << cl_buf, cl_count, cl_enabled, cfg, halted >>
                /\ trace' = << >>]_vars

\* C18 witness: an EOF fed on the empty buffer of an enabled session ran exit
C18_Witness ==
    /\ fed = EOT
    /\ cl_enabled = 0
    /\ cl_count = 0
    /\ Output(trace) = << Puts(MsgExit) >>

\* C19 as the specification states it: a call of cli_feed that finds the
\* session disabled and leaves it enabled emits the prompt.
C19_EnablingShowsPrompt ==
    [][(cl_enabled = 0 /\ cl_enabled' = 1) => Has(trace', Puts(MsgPrompt))]_vars

\* C20: a disabled session has line length 0; a byte fed while it is disabled
\* that is no terminator is stored nowhere, and the terminator that enables
\* the session again dispatches nothing and leaves the length 0.
C20_DisabledIsEmpty ==
    /\ [](cl_enabled = 0 => cl_count = 0)
    /\ [][cl_enabled = 0 =>
            IF fed' \in Terminators
            THEN cl_count' = 0 /\ Dispatched(trace') = << >>
            ELSE cl_buf' = cl_buf /\ cl_count' = 0 /\ wr' = {}]_vars

\* C20 witness: the line `exit` was entered: the session is disabled, the
\* four bytes it held are no longer counted
C20_Witness ==
    /\ cl_enabled = 0
    /\ cl_count = 0
    /\ fed \in Terminators
    /\ Count(trace, "cliExit") = 1
    /\ wr # {}

====
